---- MODULE Spec2Model ----
(***************************************************************************)
(* jackd: a beanstalkd client.  Model of src/src/index.js: the command      *)
(* catalog (encoders and response decoders), the error classifier and the  *)
(* per-exchange chunk buffer of createCommandHandler.                       *)
(*                                                                         *)
(* A JavaScript string is a sequence of one-character strings, so that     *)
(* startsWith, indexOf, substring and split are computed on characters.    *)
(***************************************************************************)
EXTENDS Integers, Sequences, FiniteSets, TLC

\* ---- status tokens (index.js 4-25) ----
RESERVED ==
    <<"R", "E", "S", "E", "R", "V", "E", "D">>
INSERTED ==
    <<"I", "N", "S", "E", "R", "T", "E", "D">>
USING ==
    <<"U", "S", "I", "N", "G">>
TOUCHED ==
    <<"T", "O", "U", "C", "H", "E", "D">>
DELETED ==
    <<"D", "E", "L", "E", "T", "E", "D">>
BURIED ==
    <<"B", "U", "R", "I", "E", "D">>
RELEASED ==
    <<"R", "E", "L", "E", "A", "S", "E", "D">>
NOT_FOUND ==
    <<"N", "O", "T", "_", "F", "O", "U", "N", "D">>
OUT_OF_MEMORY ==
    <<"O", "U", "T", "_", "O", "F", "_", "M", "E", "M", "O", "R", "Y">>
INTERNAL_ERROR ==
    <<"I", "N", "T", "E", "R", "N", "A", "L", "_", "E", "R", "R", "O", "R">>
BAD_FORMAT ==
    <<"B", "A", "D", "_", "F", "O", "R", "M", "A", "T">>
UNKNOWN_COMMAND ==
    <<"U", "N", "K", "N", "O", "W", "N", "_", "C", "O", "M", "M", "A", "N", "D">>
EXPECTED_CRLF ==
    <<"E", "X", "P", "E", "C", "T", "E", "D", "_", "C", "R", "L", "F">>
JOB_TOO_BIG ==
    <<"J", "O", "B", "_", "T", "O", "O", "_", "B", "I", "G">>
DRAINING ==
    <<"D", "R", "A", "I", "N", "I", "N", "G">>
TIMED_OUT ==
    <<"T", "I", "M", "E", "D", "_", "O", "U", "T">>
DEADLINE_SOON ==
    <<"D", "E", "A", "D", "L", "I", "N", "E", "_", "S", "O", "O", "N">>
FOUND ==
    <<"F", "O", "U", "N", "D">>
WATCHING ==
    <<"W", "A", "T", "C", "H", "I", "N", "G">>
NOT_IGNORED ==
    <<"N", "O", "T", "_", "I", "G", "N", "O", "R", "E", "D">>
KICKED ==
    <<"K", "I", "C", "K", "E", "D">>
PAUSED ==
    <<"P", "A", "U", "S", "E", "D">>

\* ---- JavaScript strings and values ----

\* The line delimiter '\r\n' searched by processIncomingData.
CRLF ==
    <<"\r", "\n">>

\* The JavaScript value undefined where a string may stand: it is a sequence
\* of one nine-letter element, so it differs from every character sequence.
undefined ==
    <<"undefined">>

\* String.prototype.startsWith
StartsWith(s, prefix) ==
    /\ Len(s) >= Len(prefix)
    /\ SubSeq(s, 1, Len(prefix)) = prefix

\* String.prototype.indexOf for a pattern, 1-based; 0 stands for -1.
IndexOf(s, pat) ==
    LET hits == {i \in 1..(Len(s) - Len(pat) + 1) : SubSeq(s, i, i + Len(pat) - 1) = pat}
    IN  IF hits = {} THEN 0 ELSE CHOOSE i \in hits : \A j \in hits : i <= j

\* const [, x] = response.split(' '): the second element of the split, or
\* undefined when the line holds no space.
SplitSecond(s) ==
    LET sp == IndexOf(s, <<" ">>)
    IN  IF sp = 0 THEN undefined
        ELSE LET rest == SubSeq(s, sp + 1, Len(s))
                 sp2  == IndexOf(rest, <<" ">>)
             IN  IF sp2 = 0 THEN rest ELSE SubSeq(rest, 1, sp2 - 1)

\* Number to decimal text, as a template literal prints it.
DigitChar(d) ==
    <<"0", "1", "2", "3", "4", "5", "6", "7", "8", "9">>[d + 1]

RECURSIVE NumToStr(_)
NumToStr(n) ==
    IF n < 10 THEN <<DigitChar(n)>>
    ELSE NumToStr(n \div 10) \o <<DigitChar(n % 10)>>

\* Argument values a caller passes: undefined, a string, or a plain object
\* (props: a sequence of <<key, number>> pairs).
JSUndefined ==
    [type |-> "undefined", str |-> <<>>, props |-> <<>>]

JSString(s) ==
    [type |-> "string", str |-> s, props |-> <<>>]

JSObject(props) ==
    [type |-> "object", str |-> <<>>, props |-> props]

\* Truthiness, as assert(value) tests it.
Truthy(v) ==
    \/ v.type = "object"
    \/ v.type = "string" /\ v.str # <<>>

\* `${value}`: string conversion inside a template literal.
TemplateString(v) ==
    CASE v.type = "undefined" -> <<"u", "n", "d", "e", "f", "i", "n", "e", "d">>
      [] v.type = "string"    -> v.str
      [] v.type = "object"    -> <<"[", "o", "b", "j", "e", "c", "t", " ", "O", "b", "j", "e", "c", "t", "]">>

\* JSON.stringify of a plain object with numeric members.
RECURSIVE JSONMembers(_)
JSONMembers(props) ==
    IF props = <<>> THEN <<>>
    ELSE LET p == Head(props)
             m == <<"\"">> \o p[1] \o <<"\"", ":">> \o NumToStr(p[2])
         IN  IF Len(props) = 1 THEN m
             ELSE m \o <<",">> \o JSONMembers(Tail(props))

JSONStringify(v) ==
    <<"{">> \o JSONMembers(v.props) \o <<"}">>

\* ---- command encoders: the commandFunction of every catalog entry ----

Commands ==
    {"executeCommand", "executeMultiPartCommand", "pauseTube", "put", "use",
     "reserve", "reserveWithTimeout", "delete", "release", "bury", "touch",
     "watch", "ignore", "peek", "kick", "kickJob", "getCurrentTube"}

\* `${n || fallback}` for a numeric option; 0 stands for an omitted option
\* as well, both being falsy.
OrDefault(n, fallback) ==
    NumToStr(IF n = 0 THEN fallback ELSE n)

\* assert(value) threw
Threw ==
    [threw |-> TRUE, string |-> undefined]

Returned(s) ==
    [threw |-> FALSE, string |-> s]

\* assert(arg); return `<verb> ${arg}\r\n`
AssertedLine(verb, arg) ==
    IF ~Truthy(arg) THEN Threw
    ELSE Returned(verb \o TemplateString(arg) \o CRLF)

putCommand(payload, opts) ==
    IF ~Truthy(payload) THEN Threw
    ELSE LET string == IF payload.type = "object" THEN JSONStringify(payload)
                       ELSE payload.str
             body   == string    \* Buffer.from(string, 'ascii'): one byte per character
         IN  Returned(<<"p", "u", "t", " ">> \o OrDefault(opts.priority, 0) \o <<" ">>
                      \o OrDefault(opts.delay, 0) \o <<" ">>
                      \o OrDefault(opts.ttr, 60) \o <<" ">>
                      \o NumToStr(Len(body)) \o CRLF
                      \o TemplateString(payload) \o CRLF)

pauseTubeCommand(tube, opts) ==
    Returned(<<"p", "a", "u", "s", "e", "-", "t", "u", "b", "e", " ">> \o TemplateString(tube) \o <<" ">> \o OrDefault(opts.delay, 0))

releaseCommand(id, opts) ==
    IF ~Truthy(id) THEN Threw
    ELSE Returned(<<"r", "e", "l", "e", "a", "s", "e", " ">> \o TemplateString(id) \o <<" ">>
                  \o OrDefault(opts.priority, 0) \o <<" ">>
                  \o OrDefault(opts.delay, 0) \o CRLF)

buryCommand(id, opts) ==
    IF ~Truthy(id) THEN Threw
    ELSE Returned(<<"b", "u", "r", "y", " ">> \o TemplateString(id) \o <<" ">>
                  \o OrDefault(opts.priority, 0) \o CRLF)

\* command => command (executeCommand, executeMultiPartCommand)
identityCommand(command) ==
    Returned(IF command.type = "string" THEN command.str ELSE undefined)

commandFunction(cmd, arg, opts) ==
    CASE cmd = "executeCommand"          -> identityCommand(arg)
      [] cmd = "executeMultiPartCommand" -> identityCommand(arg)
      [] cmd = "pauseTube"               -> pauseTubeCommand(arg, opts)
      [] cmd = "put"                     -> putCommand(arg, opts)
      [] cmd = "use"                     -> AssertedLine(<<"u", "s", "e", " ">>, arg)
      [] cmd = "reserve"                 -> Returned(<<"r", "e", "s", "e", "r", "v", "e", "\r", "\n">>)
      [] cmd = "reserveWithTimeout"      ->
             Returned(<<"r", "e", "s", "e", "r", "v", "e", "-", "w", "i", "t", "h", "-", "t", "i", "m", "e", "o", "u", "t", " ">> \o TemplateString(arg) \o CRLF)
      [] cmd = "delete"                  -> AssertedLine(<<"d", "e", "l", "e", "t", "e", " ">>, arg)
      [] cmd = "release"                 -> releaseCommand(arg, opts)
      [] cmd = "bury"                    -> buryCommand(arg, opts)
      [] cmd = "touch"                   -> AssertedLine(<<"t", "o", "u", "c", "h", " ">>, arg)
      [] cmd = "watch"                   -> AssertedLine(<<"w", "a", "t", "c", "h", " ">>, arg)
      [] cmd = "ignore"                  -> AssertedLine(<<"i", "g", "n", "o", "r", "e", " ">>, arg)
      [] cmd = "peek"                    -> AssertedLine(<<"p", "e", "e", "k", " ">>, arg)
      [] cmd = "kick"                    -> AssertedLine(<<"k", "i", "c", "k", " ">>, arg)
      [] cmd = "kickJob"                 -> AssertedLine(<<"k", "i", "c", "k", "-", "j", "o", "b", " ">>, arg)
      [] cmd = "getCurrentTube"          -> Returned(<<"l", "i", "s", "t", "-", "t", "u", "b", "e", "-", "u", "s", "e", "d", "\r", "\n">>)

\* JackdClient.prototype.write: assert(string) before socket.write
WriteAsserts(string) ==
    string = undefined \/ string = <<>>

\* ---- results of a decoder and of an exchange ----

\* What a promise settles with, or what a decoder returns or throws:
\*   "none"                 not settled
\*   "undefined"            the value undefined (a void result)
\*   "string"               value: a string (or undefined, from a short split)
\*   "job"                  the object {id, payload: value}
\*   "jobContinuation"      function(deferredResponse) of reserve and peek, closing over id
\*   "identityContinuation" function(deferredResponse) of executeMultiPartCommand
\*   "Error"                thrown new Error(response), value: the message
\*   "unexpected-response"  thrown by invalidResponse, value: error.response
\*   "AssertionError"       thrown by assert
\*   "WriteError"           the err handed to the socket.write callback
Result(kind, id, value) ==
    [kind |-> kind, id |-> id, value |-> value]

NoResult ==
    Result("none", undefined, undefined)

Void ==
    Result("undefined", undefined, undefined)

IsFunction(r) ==
    r.kind \in {"jobContinuation", "identityContinuation"}

IsThrown(r) ==
    r.kind \in {"Error", "unexpected-response", "AssertionError", "WriteError"}

\* ---- error classifier ----

SharedErrors ==
    {OUT_OF_MEMORY, INTERNAL_ERROR, BAD_FORMAT, TIMED_OUT, UNKNOWN_COMMAND}

\* validateAgainstErrors testing additionalErrors alone, the shared list left
\* out of the concat.
validateAgainstErrors_additionalOnly(response, additionalErrors) ==
    \E error \in additionalErrors : StartsWith(response, error)

\* TRUE when validateAgainstErrors throws new Error(response)
validateAgainstErrors(response, additionalErrors) ==
    \E error \in SharedErrors \cup additionalErrors : StartsWith(response, error)

invalidResponse(response) ==
    Result("unexpected-response", undefined, response)

\* ---- response decoders: the responseFunction of every catalog entry ----

\* validateAgainstErrors(response, additional), then the decoder's own body
Classified(response, additionalErrors, body) ==
    IF validateAgainstErrors(response, additionalErrors)
    THEN Result("Error", undefined, response)
    ELSE body

\* if (response === token) return; invalidResponse(response)
ExactToken(response, token) ==
    IF response = token THEN Void ELSE invalidResponse(response)

\* if (response.startsWith(token)) { const [, x] = response.split(' '); return x }
PrefixToken(response, token) ==
    IF StartsWith(response, token)
    THEN Result("string", undefined, SplitSecond(response))
    ELSE invalidResponse(response)

\* the same, returning the continuation that builds {id, payload}
PrefixJob(response, token) ==
    IF StartsWith(response, token)
    THEN Result("jobContinuation", SplitSecond(response), undefined)
    ELSE invalidResponse(response)

reserveResponseHandler(response) ==
    Classified(response, {DEADLINE_SOON, TIMED_OUT}, PrefixJob(response, RESERVED))

executeCommandResponse(response) ==
    Classified(response, {}, Result("string", undefined, response))

executeMultiPartCommandResponse(response) ==
    Classified(response, {}, Result("identityContinuation", undefined, undefined))

pauseTubeResponse(response) ==
    Classified(response, {NOT_FOUND}, ExactToken(response, PAUSED))

putResponse(response) ==
    Classified(response, {BURIED, EXPECTED_CRLF, JOB_TOO_BIG, DRAINING}, PrefixToken(response, INSERTED))

useResponse(response) ==
    Classified(response, {}, PrefixToken(response, USING))

deleteResponse(response) ==
    Classified(response, {NOT_FOUND}, ExactToken(response, DELETED))

releaseResponse(response) ==
    Classified(response, {BURIED, NOT_FOUND}, ExactToken(response, RELEASED))

\* bury's decoder declaring BURIED an error, as release's does.
buryResponse_buriedIsError(response) ==
    Classified(response, {BURIED, NOT_FOUND}, ExactToken(response, BURIED))

buryResponse(response) ==
    Classified(response, {NOT_FOUND}, ExactToken(response, BURIED))

touchResponse(response) ==
    Classified(response, {NOT_FOUND}, ExactToken(response, TOUCHED))

watchResponse(response) ==
    Classified(response, {}, PrefixToken(response, WATCHING))

ignoreResponse(response) ==
    Classified(response, {NOT_IGNORED}, PrefixToken(response, WATCHING))

peekResponse(response) ==
    Classified(response, {NOT_FOUND}, PrefixJob(response, FOUND))

kickResponse(response) ==
    Classified(response, {}, ExactToken(response, KICKED))

kickJobResponse(response) ==
    Classified(response, {NOT_FOUND}, ExactToken(response, KICKED))

getCurrentTubeResponse(response) ==
    Classified(response, {NOT_FOUND}, PrefixToken(response, USING))

\* the responseFunction that createCommandHandler closed over for each entry
responseFunction(cmd, response) ==
    CASE cmd = "executeCommand" -> executeCommandResponse(response)
      [] cmd = "executeMultiPartCommand" -> executeMultiPartCommandResponse(response)
      [] cmd = "pauseTube" -> pauseTubeResponse(response)
      [] cmd = "put" -> putResponse(response)
      [] cmd = "use" -> useResponse(response)
      [] cmd = "reserve" -> reserveResponseHandler(response)
      [] cmd = "reserveWithTimeout" -> reserveResponseHandler(response)
      [] cmd = "delete" -> deleteResponse(response)
      [] cmd = "release" -> releaseResponse(response)
      [] cmd = "bury" -> buryResponse(response)
      [] cmd = "touch" -> touchResponse(response)
      [] cmd = "watch" -> watchResponse(response)
      [] cmd = "ignore" -> ignoreResponse(response)
      [] cmd = "peek" -> peekResponse(response)
      [] cmd = "kick" -> kickResponse(response)
      [] cmd = "kickJob" -> kickJobResponse(response)
      [] cmd = "getCurrentTube" -> getCurrentTubeResponse(response)

\* Calling a continuation on the line that follows the status line.
ApplyContinuation(fn, deferredResponse) ==
    IF fn.kind = "jobContinuation"
    THEN Result("job", fn.id, deferredResponse)
    ELSE Result("string", undefined, deferredResponse)

\* ---- the exchange: createCommandHandler and processIncomingData ----

\* What one call of processIncomingData leaves behind: the closure's buffer,
\* whether the listener stays ("listening") or the promise settled, the value
\* or error it settled with, the last line handed to responseFunction, and
\* the local `tail` that was in scope when the promise settled.
Outcome(buffer, pc, result, head, tail) ==
    [buffer |-> buffer, pc |-> pc, result |-> result, head |-> head, tail |-> tail]

RECURSIVE processIncomingData(_, _, _, _, _)

\* processIncomingData with buffer.indexOf('\r'): a line ends at its carriage
\* return, whether or not the line feed has arrived.
processIncomingData_terminatorIsCR(cmd, buffer0, chunk, responseFunctionOverride, head0) ==
    LET buffer         == buffer0 \o chunk
        delimiterIndex == IndexOf(buffer, <<"\r">>)
        isLine         == delimiterIndex > 0
        head           == SubSeq(buffer, 1, delimiterIndex - 1)
        tail           == SubSeq(buffer, delimiterIndex + 2, Len(buffer))
        useOverride    == IsFunction(responseFunctionOverride)
        decode[line \in {head}] ==
                          IF useOverride
                          THEN ApplyContinuation(responseFunctionOverride, line)
                          ELSE responseFunction(cmd, line)
        result         == decode[head]
        statusHead     == IF useOverride THEN head0 ELSE head
    IN  IF ~isLine THEN Outcome(buffer, "listening", NoResult, head0, <<>>)
        ELSE IF IsThrown(result) THEN Outcome(<<>>, "rejected", result, statusHead, tail)
        ELSE IF IsFunction(result) /\ tail # <<>>
             THEN processIncomingData(cmd, <<>>, tail, result, statusHead)
        ELSE Outcome(<<>>, "resolved", result, statusHead, tail)

processIncomingData(cmd, buffer0, chunk, responseFunctionOverride, head0) ==
    LET buffer         == buffer0 \o chunk
        delimiterIndex == IndexOf(buffer, CRLF)
        isLine         == delimiterIndex > 0
        head           == SubSeq(buffer, 1, delimiterIndex - 1)
        tail           == SubSeq(buffer, delimiterIndex + 2, Len(buffer))
        useOverride    == IsFunction(responseFunctionOverride)
        decode[line \in {head}] ==
                          IF useOverride
                          THEN ApplyContinuation(responseFunctionOverride, line)
                          ELSE responseFunction(cmd, line)
        result         == decode[head]
        statusHead     == IF useOverride THEN head0 ELSE head
    IN  IF ~isLine THEN Outcome(buffer, "listening", NoResult, head0, <<>>)
        ELSE IF IsThrown(result) THEN Outcome(<<>>, "rejected", result, statusHead, tail)
        ELSE IF IsFunction(result) /\ tail # <<>>
             THEN processIncomingData(cmd, <<>>, tail, result, statusHead)
        ELSE Outcome(<<>>, "resolved", result, statusHead, tail)

\* ---- bounds and inputs ----

\* Commands a caller issues on one connection in one behaviour.
MaxCommands ==
    2

\* The exchanges that can be outstanding: slot 2 is only needed by callers
\* that do not serialize their invocations.
Slots ==
    {1, 2}

\* The first command on a connection is any catalog entry; the commands that
\* follow it are a single-line one and a two-phase one.
FollowUps ==
    {"delete", "reserve"}

CommandsAt(n) ==
    IF n = 0 THEN Commands ELSE FollowUps

NoOpts ==
    [priority |-> 0, delay |-> 0, ttr |-> 0]

SomeOpts ==
    [priority |-> 5, delay |-> 2, ttr |-> 90]

\* The first argument a caller may pass to each command.
ArgsOf(cmd) ==
    CASE cmd \in {"reserve", "getCurrentTube"} -> {JSUndefined}
      [] cmd = "put" ->
             {JSUndefined, JSString(<<>>), JSString(<<"h", "e", "l", "l", "o">>),
              JSObject(<< <<<<"a">>, 1>> >>)}
      [] cmd \in {"executeCommand", "executeMultiPartCommand"} ->
             {JSUndefined, JSString(<<>>), JSString(<<"s", "t", "a", "t", "s", "\r", "\n">>)}
      [] OTHER -> {JSUndefined, JSString(<<>>), JSString(<<"7">>)}

\* The options object a caller may pass.
OptsOf(cmd) ==
    IF cmd \in {"pauseTube", "put", "release", "bury"} THEN {NoOpts, SomeOpts}
    ELSE {NoOpts}

\* Success frames of the protocol for each command.  A job body may hold the
\* bytes CR LF itself: its frame is delimited by the declared length.
JobFrames(token) ==
    {token \o <<" ", "4", "2", " ", "2", "\r", "\n", "h", "i", "\r", "\n">>, token \o <<" ", "4", "2", " ", "4", "\r", "\n", "a", "\r", "\n", "b", "\r", "\n">>}

SuccessFrames(cmd) ==
    CASE cmd = "executeCommand"          -> {<<"O", "K", " ", "3", "\r", "\n">>}
      [] cmd = "executeMultiPartCommand" -> {<<"O", "K", " ", "2", "\r", "\n", "h", "i", "\r", "\n">>}
      [] cmd = "pauseTube"               -> {PAUSED \o CRLF}
      [] cmd = "put"                     -> {INSERTED \o <<" ", "4", "2", "\r", "\n">>}
      [] cmd \in {"use", "getCurrentTube"} -> {USING \o <<" ", "t", "\r", "\n">>}
      [] cmd \in {"reserve", "reserveWithTimeout"} -> JobFrames(RESERVED)
      [] cmd = "delete"                  -> {DELETED \o CRLF}
      [] cmd = "release"                 -> {RELEASED \o CRLF}
      [] cmd = "bury"                    -> {BURIED \o CRLF}
      [] cmd = "touch"                   -> {TOUCHED \o CRLF}
      [] cmd \in {"watch", "ignore"}     -> {WATCHING \o <<" ", "3", "\r", "\n">>}
      [] cmd = "peek"                    -> JobFrames(FOUND)
      [] cmd \in {"kick", "kickJob"}     -> {KICKED \o CRLF}

\* Error lines the protocol defines, beyond the shared ones.
ProtocolErrors ==
    {NOT_FOUND, BURIED, EXPECTED_CRLF, JOB_TOO_BIG, DRAINING, DEADLINE_SOON,
     NOT_IGNORED}

\* Lines no command expects: an unknown word, and words that extend a known
\* token.
StrayLines ==
    {<<"O", "K">>, INSERTED \o <<"X", " ", "4", "2">>, USING \o <<"S", " ", "t">>, NOT_FOUND \o <<"X">>}

\* What the server may send in answer to a command: to the first command of
\* a connection any of its success frames, any error line and any stray
\* line; to a later one a success frame, NOT_FOUND or a stray word.
Replies(cmd) ==
    SuccessFrames(cmd)
    \cup {line \o CRLF : line \in SharedErrors \cup ProtocolErrors \cup StrayLines}

FollowUpReplies(cmd) ==
    SuccessFrames(cmd) \cup {NOT_FOUND \o CRLF, <<"O", "K", "\r", "\n">>}

RepliesAt(seq, cmd) ==
    IF seq = 1 THEN Replies(cmd) ELSE FollowUpReplies(cmd)

AllReplies ==
    UNION {Replies(cmd) : cmd \in Commands}

\* ---- state ----

VARIABLES
    ex,         \* per slot: the exchange created by the last invocation in it
    listeners,  \* the socket's 'data' listeners, in registration order
    flowing,    \* the socket emits 'data' (a listener was attached once)
    wire,       \* strings handed to socket.write that are not flushed yet
    unanswered, \* commands the server received and has not answered
    stream,     \* bytes the server sent that the socket has not emitted yet
    ncommands   \* invocations so far

vars ==
    <<ex, listeners, flowing, wire, unanswered, stream, ncommands>>

IdleExchange ==
    [cmd |-> "none", seq |-> 0, pc |-> "idle", buffer |-> <<>>,
     result |-> NoResult, head |-> undefined, tail |-> <<>>, frame |-> <<>>,
     prior |-> "none"]

\* The exchange at the first line of command(): let buffer = ''
NewExchange(cmd, seq) ==
    [IdleExchange EXCEPT !.cmd = cmd, !.seq = seq, !.pc = "writing"]

\* What the invocation before the next one has settled with so far: the kind
\* of its result ("none" also when there was no invocation before).
PriorResult ==
    IF ncommands = 0 THEN "none"
    ELSE ex[CHOOSE s \in Slots : ex[s].seq = ncommands].result.kind

Pending(e) ==
    ex[e].pc \in {"writing", "listening"}

Settled(e) ==
    ex[e].pc \in {"resolved", "rejected"}

Init ==
    /\ ex = [e \in Slots |-> IdleExchange]
    /\ listeners = <<>>
    /\ flowing = FALSE
    /\ wire = <<>>
    /\ unanswered = <<>>
    /\ stream = <<>>
    /\ ncommands = 0

\* ---- actions ----

\* A caller that serializes its invocations calls a command once every
\* earlier one has settled.  commandFunction runs, then this.write.
Invoke(e, cmd, arg, opts) ==
    /\ ncommands < MaxCommands
    /\ cmd \in CommandsAt(ncommands)
    /\ \A s \in Slots : ~Pending(s)
    /\ e = 1
    /\ LET c      == commandFunction(cmd, arg, opts)
           seq    == ncommands + 1
           failed == c.threw \/ WriteAsserts(c.string)
       IN  /\ ex' = [ex EXCEPT ![e] =
                        IF failed
                        THEN [NewExchange(cmd, seq) EXCEPT !.pc = "rejected",
                                 !.result = Result("AssertionError", undefined, undefined),
                                 !.prior = PriorResult]
                        ELSE [NewExchange(cmd, seq) EXCEPT !.prior = PriorResult]]
           /\ wire' = IF failed THEN wire
                      ELSE Append(wire, [seq |-> seq, bytes |-> c.string])
    /\ ncommands' = ncommands + 1
    /\ UNCHANGED <<listeners, flowing, unanswered, stream>>

\* WriteOk on an engine whose promise executor never calls socket.on: the
\* command is with the server, the socket flows, nobody listens.
WriteOk_listenerNotRegistered(e) ==
    /\ ex[e].pc = "writing"
    /\ ex' = [ex EXCEPT ![e].pc = "listening"]
    /\ listeners' = listeners
    /\ flowing' = TRUE
    /\ wire' = SelectSeq(wire, LAMBDA w : w.seq # ex[e].seq)
    /\ unanswered' = Append(unanswered, [slot |-> e, seq |-> ex[e].seq, cmd |-> ex[e].cmd])
    /\ UNCHANGED <<stream, ncommands>>

\* socket.write called back without error: the bytes are with the server, the
\* await resumes and the promise executor registers the listener.
WriteOk(e) ==
    /\ ex[e].pc = "writing"
    /\ ex' = [ex EXCEPT ![e].pc = "listening"]
    /\ listeners' = Append(listeners, e)
    /\ flowing' = TRUE
    /\ wire' = SelectSeq(wire, LAMBDA w : w.seq # ex[e].seq)
    /\ unanswered' = Append(unanswered, [slot |-> e, seq |-> ex[e].seq, cmd |-> ex[e].cmd])
    /\ UNCHANGED <<stream, ncommands>>

\* WriteFail on an engine that registers the listener before the write is
\* acknowledged: the rejected exchange keeps listening.
WriteFail_listenerRegistered(e) ==
    /\ ex[e].pc = "writing"
    /\ ex' = [ex EXCEPT ![e].pc = "rejected",
                        ![e].result = Result("WriteError", undefined, undefined)]
    /\ wire' = SelectSeq(wire, LAMBDA w : w.seq # ex[e].seq)
    /\ listeners' = Append(listeners, e)
    /\ flowing' = TRUE
    /\ UNCHANGED <<unanswered, stream, ncommands>>

\* socket.write called back with err: write() rejects and command() rejects
\* with it; the bytes never reach the server.
WriteFail(e) ==
    /\ ex[e].pc = "writing"
    /\ ex' = [ex EXCEPT ![e].pc = "rejected",
                        ![e].result = Result("WriteError", undefined, undefined)]
    /\ wire' = SelectSeq(wire, LAMBDA w : w.seq # ex[e].seq)
    /\ UNCHANGED <<listeners, flowing, unanswered, stream, ncommands>>

\* The server answers the oldest command it holds with one frame.
ServerRespond(frame) ==
    /\ unanswered # <<>>
    /\ LET u == Head(unanswered)
       IN  /\ frame \in RepliesAt(u.seq, u.cmd)
           /\ ex' = [ex EXCEPT ![u.slot].frame =
                        IF ex[u.slot].seq = u.seq THEN frame ELSE @]
    /\ unanswered' = Tail(unanswered)
    /\ stream' = stream \o frame
    /\ UNCHANGED <<listeners, flowing, wire, ncommands>>

\* Deliver with a catch block that rejects without socket.removeListener.
Deliver_listenerLeftOnReject(k) ==
    /\ flowing
    /\ k \in 1..Len(stream)
    /\ LET chunk == SubSeq(stream, 1, k)
           Heard(e) == \E i \in 1..Len(listeners) : listeners[i] = e
           Unheard(e) == Outcome(ex[e].buffer, ex[e].pc, ex[e].result, ex[e].head, ex[e].tail)
       IN  \E Run \in {[e \in Slots |->
                          IF Heard(e)
                          THEN processIncomingData(ex[e].cmd, ex[e].buffer, chunk, NoResult, ex[e].head)
                          ELSE Unheard(e)]} :
               /\ ex' = [e \in Slots |->
                            [ex[e] EXCEPT !.buffer = Run[e].buffer, !.pc = Run[e].pc,
                                          !.result = Run[e].result, !.head = Run[e].head,
                                          !.tail = Run[e].tail]]
               /\ listeners' = SelectSeq(listeners, LAMBDA e : Run[e].pc # "resolved")
    /\ stream' = SubSeq(stream, k + 1, Len(stream))
    /\ UNCHANGED <<flowing, wire, unanswered, ncommands>>

\* Deliver on an engine that queues exchanges: a chunk goes to the oldest
\* listener alone.
Deliver_toOldestListenerOnly(k) ==
    /\ flowing
    /\ k \in 1..Len(stream)
    /\ LET chunk == SubSeq(stream, 1, k)
           Heard(e) == listeners # <<>> /\ listeners[1] = e
           Unheard(e) == Outcome(ex[e].buffer, ex[e].pc, ex[e].result, ex[e].head, ex[e].tail)
       IN  \E Run \in {[e \in Slots |->
                          IF Heard(e)
                          THEN processIncomingData(ex[e].cmd, ex[e].buffer, chunk, NoResult, ex[e].head)
                          ELSE Unheard(e)]} :
               /\ ex' = [e \in Slots |->
                            [ex[e] EXCEPT !.buffer = Run[e].buffer, !.pc = Run[e].pc,
                                          !.result = Run[e].result, !.head = Run[e].head,
                                          !.tail = Run[e].tail]]
               /\ listeners' = SelectSeq(listeners, LAMBDA e : ~Heard(e) \/ Run[e].pc = "listening")
    /\ stream' = SubSeq(stream, k + 1, Len(stream))
    /\ UNCHANGED <<flowing, wire, unanswered, ncommands>>

\* The socket emits the next k bytes as one 'data' chunk: every registered
\* listener runs processIncomingData(chunk) with no override.  A flowing
\* socket without listeners emits all the same, and the chunk is gone.
Deliver(k) ==
    /\ flowing
    /\ k \in 1..Len(stream)
    /\ LET chunk == SubSeq(stream, 1, k)
           Heard(e) == \E i \in 1..Len(listeners) : listeners[i] = e
           Unheard(e) == Outcome(ex[e].buffer, ex[e].pc, ex[e].result, ex[e].head, ex[e].tail)
       IN  \E Run \in {[e \in Slots |->
                          IF Heard(e)
                          THEN processIncomingData(ex[e].cmd, ex[e].buffer, chunk, NoResult, ex[e].head)
                          ELSE Unheard(e)]} :
               /\ ex' = [e \in Slots |->
                            [ex[e] EXCEPT !.buffer = Run[e].buffer, !.pc = Run[e].pc,
                                          !.result = Run[e].result, !.head = Run[e].head,
                                          !.tail = Run[e].tail]]
               /\ listeners' = SelectSeq(listeners, LAMBDA e : Run[e].pc = "listening")
    /\ stream' = SubSeq(stream, k + 1, Len(stream))
    /\ UNCHANGED <<flowing, wire, unanswered, ncommands>>

\* The commands an overlapping caller issues: two single-line commands with
\* different success tokens.
OverlappingCommands ==
    {"delete", "touch"}

\* A caller that does not wait for earlier results: each slot is one call of
\* a command, made whether or not the exchange of the other slot is still
\* pending.  Nothing in command() queues the call; it takes the same path as
\* Invoke, with a closure of its own.
InvokeConcurrently(e, cmd, arg, opts) ==
    /\ cmd \in OverlappingCommands
    /\ ex[e].pc = "idle"
    /\ \A s \in Slots : s < e => ex[s].pc # "idle"
    /\ LET c      == commandFunction(cmd, arg, opts)
           seq    == ncommands + 1
           failed == c.threw \/ WriteAsserts(c.string)
       IN  /\ ex' = [ex EXCEPT ![e] =
                        IF failed
                        THEN [NewExchange(cmd, seq) EXCEPT !.pc = "rejected",
                                 !.result = Result("AssertionError", undefined, undefined),
                                 !.prior = PriorResult]
                        ELSE [NewExchange(cmd, seq) EXCEPT !.prior = PriorResult]]
           /\ wire' = IF failed THEN wire
                      ELSE Append(wire, [seq |-> seq, bytes |-> c.string])
    /\ ncommands' = ncommands + 1
    /\ UNCHANGED <<listeners, flowing, unanswered, stream>>

Next ==
    \/ \E cmd \in Commands :
          \E arg \in ArgsOf(cmd), opts \in OptsOf(cmd) : Invoke(1, cmd, arg, opts)
    \/ \E e \in Slots : WriteOk(e)
    \/ \E e \in Slots : WriteFail(e)
    \/ \E frame \in AllReplies : ServerRespond(frame)
    \/ \E k \in 1..Len(stream) : Deliver(k)

Spec ==
    Init /\ [][Next]_vars

\* A flowing socket does not hold bytes back for ever: node emits a 'data'
\* event for what it has read as long as the stream is in flowing mode.
Emit ==
    \E k \in 1..Len(stream) :
        /\ stream' = SubSeq(stream, k + 1, Len(stream))
        /\ Deliver(k)

\* The serialized connection on a transport that keeps delivering.
SpecLive ==
    Spec /\ WF_vars(Emit)

\* The server answers the oldest command of an overlapping caller.
ServerRespondPipelined(frame) ==
    /\ unanswered # <<>>
    /\ LET u == Head(unanswered)
       IN  /\ frame \in FollowUpReplies(u.cmd)
           /\ ex' = [ex EXCEPT ![u.slot].frame =
                        IF ex[u.slot].seq = u.seq THEN frame ELSE @]
    /\ unanswered' = Tail(unanswered)
    /\ stream' = stream \o frame
    /\ UNCHANGED <<listeners, flowing, wire, ncommands>>

\* The connection used by callers that may overlap their invocations.
NextPipelined ==
    \/ \E e \in Slots, cmd \in OverlappingCommands :
          \E arg \in ArgsOf(cmd), opts \in OptsOf(cmd) : InvokeConcurrently(e, cmd, arg, opts)
    \/ \E e \in Slots : WriteOk(e)
    \/ \E e \in Slots : WriteFail(e)
    \/ \E frame \in AllReplies : ServerRespondPipelined(frame)
    \/ \E k \in 1..Len(stream) : Deliver(k)

SpecPipelined ==
    Init /\ [][NextPipelined]_vars

\* ---- vocabulary of the properties ----

\* The leading token of a status line: the text before its first space.
LeadingToken(line) ==
    LET sp == IndexOf(line, <<" ">>)
    IN  IF sp = 0 THEN line ELSE SubSeq(line, 1, sp - 1)

\* The text after the last space of a line.
RECURSIVE LastToken(_)
LastToken(line) ==
    LET sp == IndexOf(line, <<" ">>)
    IN  IF sp = 0 THEN line ELSE LastToken(SubSeq(line, sp + 1, Len(line)))

\* The third token of a status line, e.g. the length in RESERVED <id> <len>.
ThirdToken(line) ==
    LET sp == IndexOf(line, <<" ">>)
    IN  SplitSecond(SubSeq(line, sp + 1, Len(line)))

DigitValue(c) ==
    CHOOSE d \in 0..9 : DigitChar(d) = c

RECURSIVE StrToNum(_)
StrToNum(s) ==
    IF s = <<>> THEN 0
    ELSE 10 * StrToNum(SubSeq(s, 1, Len(s) - 1)) + DigitValue(s[Len(s)])

EndsWith(s, suffix) ==
    /\ Len(s) >= Len(suffix)
    /\ SubSeq(s, Len(s) - Len(suffix) + 1, Len(s)) = suffix

\* The result an exchange settles with when its whole response frame arrives
\* as one chunk.
WholeOutcome(cmd, frame) ==
    processIncomingData(cmd, <<>>, frame, NoResult, undefined)

\* The valid responses of the protocol to a command: its success frames and
\* the error lines.
ValidResponses(cmd) ==
    SuccessFrames(cmd) \cup {line \o CRLF : line \in SharedErrors \cup ProtocolErrors}

\* The first exchange of a connection: every byte it is handed belongs to
\* its own response.
FirstExchange(e) ==
    ex[e].seq = 1

TwoPhaseCommands ==
    {"reserve", "reserveWithTimeout", "peek"}

\* The payload a two-phase frame declares: the declaredLength bytes after the
\* status line's terminator.
DeclaredPayload(frame) ==
    LET i      == IndexOf(frame, CRLF)
        length == StrToNum(ThirdToken(SubSeq(frame, 1, i - 1)))
    IN  SubSeq(frame, i + 2, i + 1 + length)

\* The catalog of section 4.4: success tokens and declared errors per command.
SuccessTokens(cmd) ==
    CASE cmd = "pauseTube"               -> {PAUSED}
      [] cmd = "put"                     -> {INSERTED}
      [] cmd \in {"use", "getCurrentTube"} -> {USING}
      [] cmd \in {"reserve", "reserveWithTimeout"} -> {RESERVED}
      [] cmd = "delete"                  -> {DELETED}
      [] cmd = "release"                 -> {RELEASED}
      [] cmd = "bury"                    -> {BURIED}
      [] cmd = "touch"                   -> {TOUCHED}
      [] cmd \in {"watch", "ignore"}     -> {WATCHING}
      [] cmd = "peek"                    -> {FOUND}
      [] cmd \in {"kick", "kickJob"}     -> {KICKED}

DeclaredErrors(cmd) ==
    {OUT_OF_MEMORY, INTERNAL_ERROR, BAD_FORMAT, UNKNOWN_COMMAND, TIMED_OUT}
    \cup CASE cmd \in {"pauseTube", "delete", "bury", "touch", "peek", "kickJob",
                       "getCurrentTube"} -> {NOT_FOUND}
           [] cmd = "put"     -> {BURIED, EXPECTED_CRLF, JOB_TOO_BIG, DRAINING}
           [] cmd = "release" -> {BURIED, NOT_FOUND}
           [] cmd \in {"reserve", "reserveWithTimeout"} -> {DEADLINE_SOON, TIMED_OUT}
           [] cmd = "ignore"  -> {NOT_IGNORED}
           [] OTHER           -> {}

\* The generic entries decode any line; the others are the typed catalog.
TypedCommands ==
    Commands \ {"executeCommand", "executeMultiPartCommand"}

\* The commands that take a required id, tube name or payload.
RequiredArgCommands ==
    {"put", "use", "delete", "release", "bury", "touch", "watch", "ignore",
     "peek", "kick", "kickJob", "pauseTube"}

\* The command whose bytes a wire entry holds.
WireCommand(w) ==
    ex[CHOOSE e \in Slots : ex[e].seq = w.seq].cmd

\* ---- properties ----

\* C1. Chunk-boundary invariance: whatever the chunks a valid response is
\* delivered in, the exchange settles as it does when the response arrives in
\* one chunk.
C1_ChunkBoundaryInvariance ==
    \A e \in Slots :
        (/\ FirstExchange(e) /\ Settled(e)
         /\ ex[e].cmd \in TypedCommands
         /\ ex[e].frame \in ValidResponses(ex[e].cmd))
        => /\ ex[e].pc = WholeOutcome(ex[e].cmd, ex[e].frame).pc
           /\ ex[e].result = WholeOutcome(ex[e].cmd, ex[e].frame).result

\* C2. Coalescing invariance: a reserve whose response RESERVED <id> <len> CRLF
\* <payload> CRLF arrived, in one chunk or as a status-line chunk and a payload
\* chunk, resolves with {id, payload}.
C2_CoalescingInvariance ==
    \A e \in Slots :
        (FirstExchange(e) /\ ex[e].cmd = "reserve" /\ Settled(e)
         /\ ex[e].frame = RESERVED \o <<" ", "4", "2", " ", "2", "\r", "\n", "h", "i", "\r", "\n">>)
        => /\ ex[e].pc = "resolved"
           /\ ex[e].result = Result("job", <<"4", "2">>, <<"h", "i">>)

\* C3. The payload handed to the caller of a two-phase command is exactly the
\* declaredLength bytes after the status line's terminator, also when those
\* bytes hold a CRLF.
C3_PayloadIsDeclaredLength ==
    \A e \in Slots :
        (FirstExchange(e) /\ ex[e].cmd \in TwoPhaseCommands
         /\ ex[e].frame \in SuccessFrames(ex[e].cmd)
         /\ ex[e].pc = "resolved" /\ ex[e].result.kind = "job")
        => ex[e].result.value = DeclaredPayload(ex[e].frame)

\* C4. No received byte is discarded unparsed: the bytes that follow the
\* consumed frame in the chunk that settled an exchange are still buffered
\* after the exchange's buffer was cleared.
C4_TailCarriedForward ==
    \A e \in Slots : Settled(e) => ex[e].buffer = ex[e].tail

\* C5. A status line whose leading token is a shared error code rejects the
\* exchange of any command with an error carrying the raw line; it is never
\* resolved as a value.
C5_SharedErrorsRejectEveryCommand ==
    \A e \in Slots :
        (/\ ex[e].head # undefined
         /\ LeadingToken(ex[e].head) \in
                {OUT_OF_MEMORY, INTERNAL_ERROR, BAD_FORMAT, UNKNOWN_COMMAND, TIMED_OUT})
        => /\ ex[e].pc = "rejected"
           /\ ex[e].result = Result("Error", undefined, ex[e].head)

\* A generic command, which returns any other line as its value, was answered
\* OUT_OF_MEMORY and rejected.
C5_Witness ==
    \E e \in Slots :
        /\ ex[e].cmd = "executeCommand"
        /\ ex[e].head = OUT_OF_MEMORY
        /\ ex[e].pc = "rejected"

\* C6. The status line BURIED resolves a bury exchange with a void result and
\* rejects a put or a release exchange with an error carrying the line.
C6_BuriedDualMeaning ==
    \A e \in Slots :
        ex[e].head = BURIED
        => /\ ex[e].cmd = "bury"
                => ex[e].pc = "resolved" /\ ex[e].result = Void
           /\ ex[e].cmd \in {"put", "release"}
                => ex[e].pc = "rejected" /\ ex[e].result = Result("Error", undefined, BURIED)

\* A bury exchange whose status line was BURIED has resolved.
C6_Witness ==
    \E e \in Slots :
        /\ ex[e].cmd = "bury"
        /\ ex[e].head = BURIED
        /\ ex[e].pc = "resolved"

\* C7. A status line whose leading token is neither a success token of the
\* command nor one of its declared errors rejects the exchange with an
\* unexpected-response error carrying the line, also when the token extends a
\* known one (INSERTEDX, USINGS).
C7_UnknownTokenIsUnexpected ==
    \A e \in Slots :
        (/\ ex[e].cmd \in TypedCommands
         /\ ex[e].head # undefined
         /\ LeadingToken(ex[e].head) \notin SuccessTokens(ex[e].cmd) \cup DeclaredErrors(ex[e].cmd))
        => /\ ex[e].pc = "rejected"
           /\ ex[e].result = Result("unexpected-response", undefined, ex[e].head)

\* C8. Invoking a command that takes a required id, tube name or payload with
\* that argument missing or empty fails with a validation error, writes
\* nothing on the transport and registers no listener.
C8_MissingArgumentNoWrite ==
    [][\A cmd \in RequiredArgCommands :
         \A arg \in {JSUndefined, JSString(<<>>)}, opts \in OptsOf(cmd) :
            Invoke(1, cmd, arg, opts)
            => /\ ex'[1].pc = "rejected"
               /\ ex'[1].result.kind = "AssertionError"
               /\ wire' = wire
               /\ listeners' = listeners]_vars

\* C9. What an encoder hands to the transport is exactly one command line
\* ending with CRLF, followed for put only by the payload and a trailing CRLF.
C9_CommandLineTerminated ==
    \A i \in 1..Len(wire) :
        LET bytes == wire[i].bytes
            eol   == IndexOf(bytes, CRLF)
        IN  /\ eol > 0
            /\ EndsWith(bytes, CRLF)
            /\ WireCommand(wire[i]) # "put" => eol + 1 = Len(bytes)

\* C10. The length declared on the put command line equals the number of
\* payload bytes written between the command line's CRLF and the trailing
\* CRLF.
C10_PutDeclaredLength ==
    \A i \in 1..Len(wire) :
        WireCommand(wire[i]) = "put"
        => LET bytes == wire[i].bytes
               eol   == IndexOf(bytes, CRLF)
               body  == SubSeq(bytes, eol + 2, Len(bytes) - 2)
           IN  StrToNum(LastToken(SubSeq(bytes, 1, eol - 1))) = Len(body)

\* The status line of a frame: the text before its first terminator.
StatusLine(frame) ==
    SubSeq(frame, 1, IndexOf(frame, CRLF) - 1)

\* The result section 4.4 documents for a success frame of a command.
DocumentedResult(cmd, frame) ==
    CASE cmd \in {"put", "use", "getCurrentTube", "watch", "ignore"} ->
             Result("string", undefined, SplitSecond(StatusLine(frame)))
      [] cmd \in TwoPhaseCommands ->
             Result("job", SplitSecond(StatusLine(frame)), DeclaredPayload(frame))
      [] OTHER -> Void

\* C11. The documented success response of a command, delivered whole to its
\* exchange, resolves it with the documented result.
C11_SuccessDecodesToDocumentedResult ==
    [][\A e \in Slots :
         (/\ FirstExchange(e)
          /\ ex[e].cmd \in TypedCommands
          /\ ex[e].pc = "listening"
          /\ ex[e].frame \in SuccessFrames(ex[e].cmd)
          /\ stream = ex[e].frame
          /\ stream' = <<>>)
         => /\ ex'[e].pc = "resolved"
            /\ ex'[e].result = DocumentedResult(ex[e].cmd, ex[e].frame)]_vars

\* The exchange's processIncomingData is a 'data' listener of the socket.
Registered(e) ==
    \E i \in 1..Len(listeners) : listeners[i] = e

\* The decode state of an exchange that its promise and closure hold.
DecodeState(x) ==
    <<x.seq, x.pc, x.result, x.buffer, x.head>>

\* C12. A failed exchange is terminal and isolated: a rejected exchange has no
\* listener and its state never changes again, and a delete issued after an
\* exchange that was rejected with a protocol or unexpected-response error
\* settles on its own response, as it does on a fresh connection.
C12_FailedExchangeIsolated ==
    /\ [](\A e \in Slots :
            /\ ex[e].pc = "rejected" => ~Registered(e)
            /\ (/\ ex[e].prior \in {"Error", "unexpected-response"}
                /\ ex[e].cmd = "delete"
                /\ Settled(e)
                /\ ex[e].result.kind \notin {"AssertionError", "WriteError"})
               => /\ ex[e].frame # <<>>
                  /\ ex[e].pc = WholeOutcome(ex[e].cmd, ex[e].frame).pc
                  /\ ex[e].result = WholeOutcome(ex[e].cmd, ex[e].frame).result)
    /\ [][\A e \in Slots :
            (ex[e].pc = "rejected" /\ ex'[e].seq = ex[e].seq)
            => DecodeState(ex'[e]) = DecodeState(ex[e])]_vars

\* C13. With callers that serialize their invocations, at most one data
\* listener is registered on the socket, and a registered listener belongs to
\* an exchange that has neither resolved nor rejected.
C13_AtMostOneListener ==
    /\ Len(listeners) <= 1
    /\ \A e \in Slots : Registered(e) => ex[e].pc = "listening"
    /\ Cardinality({e \in Slots : Pending(e)}) <= 1

\* The second exchange of a connection is listening, the first one having
\* settled and released its listener.
C13_Witness ==
    \E e \in Slots :
        /\ listeners = <<e>>
        /\ ex[e].seq = 2
        /\ ex[e].prior \in {"undefined", "string", "job", "Error", "unexpected-response"}

\* The bytes the socket emits in this step.
EmittedChunk ==
    SubSeq(stream, 1, Len(stream) - Len(stream'))

\* C14. The engine does not queue: while the exchanges of two overlapping
\* invocations both have their listener registered, every chunk the socket
\* emits is consumed by both of them, whichever command the bytes answer.
C14_NoQueueingBothConsume ==
    [][(Len(listeners) = 2 /\ Len(stream') < Len(stream))
       => \A e \in Slots :
            /\ ex'[e].pc = "listening"
                 => ex'[e].buffer = ex[e].buffer \o EmittedChunk
            /\ ex'[e].pc # "listening"
                 => /\ ~Registered(e)'
                    /\ ex'[e].head = StatusLine(ex[e].buffer \o EmittedChunk)]_vars

\* A delete and a touch overlap; the server has answered the delete alone, and
\* the line DELETED was decoded by both exchanges: the touch is rejected on
\* the response of the delete.
C14_Witness ==
    /\ ex[1].cmd = "delete" /\ ex[2].cmd = "touch"
    /\ ex[1].frame = DELETED \o CRLF /\ ex[2].frame = <<>>
    /\ ex[1].pc = "resolved" /\ ex[1].head = DELETED
    /\ ex[2].pc = "rejected" /\ ex[2].head = DELETED

\* C15. An exchange whose socket.write called back with an error is rejected
\* with that error, its listener is never registered, and it decodes no chunk:
\* its buffer stays empty and no line is ever handed to its decoder.
C15_WriteFailureRejectsUnheard ==
    /\ [](\A e \in Slots :
            ex[e].result.kind = "WriteError"
              => /\ ex[e].pc = "rejected"
                 /\ ~Registered(e)
                 /\ ex[e].buffer = <<>>
                 /\ ex[e].head = undefined
                 /\ ex[e].frame = <<>>)
    /\ [][\A e \in Slots :
            (ex[e].pc = "writing" /\ ex'[e].pc # "writing")
              => \/ ex'[e].pc = "listening" /\ Registered(e)'
                 \/ /\ ex'[e].pc = "rejected"
                    /\ ex'[e].result.kind = "WriteError"
                    /\ listeners' = listeners]_vars

\* The write of a second command failed on a socket that is already flowing,
\* after the first exchange resolved on its status line alone: the payload
\* bytes of the first response were emitted, and the rejected exchange has not
\* seen them.
C15_Witness ==
    \E e \in Slots :
        /\ ex[e].seq = 2
        /\ ex[e].result.kind = "WriteError"
        /\ ex[e].prior = "jobContinuation"
        /\ flowing
        /\ stream = <<>>

\* C16. An exchange whose status decoder returned a continuation while the
\* tail after the status line is empty stays pending until the payload
\* arrives: no exchange is ever resolved with the continuation itself.
C16_NeverResolvedWithContinuation ==
    \A e \in Slots :
        ex[e].pc = "resolved" => ~IsFunction(ex[e].result)

\* C17. Once the status line of a two-phase response has been decoded, the
\* continuation stays the decode function of the exchange: the only line its
\* status decoder is ever run on is the status line, never payload bytes.
C17_StatusDecoderNeverSeesPayload ==
    \A e \in Slots :
        (/\ FirstExchange(e)
         /\ ex[e].cmd \in TwoPhaseCommands
         /\ ex[e].frame \in SuccessFrames(ex[e].cmd))
          => ex[e].head \in {undefined, StatusLine(ex[e].frame)}

\* C18. A status line is interpreted only once its terminator has fully
\* arrived.  While the bytes the first exchange has been handed stop short of
\* the LF of the terminator (also right after its CR), no line is decoded, the
\* exchange stays pending and the buffer keeps every byte; at the chunk that
\* completes the CRLF the decoder is handed the complete line without the
\* terminator, and the line leaves the buffer, so it is not decoded again.
C18_StatusLineDecodedAtTerminator ==
    [][\A e \in Slots :
         (/\ FirstExchange(e)
          /\ Registered(e)
          /\ ex[e].head = undefined
          /\ Len(stream') < Len(stream))
           => LET b    == ex[e].buffer \o EmittedChunk
                  line == StatusLine(ex[e].frame)
              IN  IF Len(b) < Len(line) + 2
                  THEN /\ ex'[e].head = undefined
                       /\ ex'[e].pc = "listening"
                       /\ ex'[e].buffer = b
                  ELSE /\ ex'[e].head = line
                       /\ Len(ex'[e].buffer) <= Len(b) - (Len(line) + 2)]_vars

\* The terminator is split between its CR and its LF: the exchange holds the
\* whole line and the CR, and has decoded nothing.
C18_Witness ==
    \E e \in Slots :
        /\ FirstExchange(e)
        /\ ex[e].frame # <<>>
        /\ ex[e].pc = "listening"
        /\ ex[e].head = undefined
        /\ ex[e].buffer = StatusLine(ex[e].frame) \o <<"\r">>
        /\ stream # <<>> /\ Head(stream) = "\n"

\* C19. With serialized invocations the bytes of a response are decoded only
\* by the exchange whose command elicited them: when the latest exchange has
\* settled on its response, no byte of that response is still to be emitted,
\* and an exchange whose command the server has not answered yet has been
\* handed no byte and has decoded no line.
C19_ResponseBytesStayWithTheirExchange ==
    \A e \in Slots :
        /\ (Settled(e) /\ ex[e].seq = ncommands /\ ex[e].frame # <<>>)
             => stream = <<>>
        /\ (ex[e].seq = 2 /\ ex[e].frame = <<>>)
             => (ex[e].buffer = <<>> /\ ex[e].head = undefined)

\* C20. With serialized invocations, an exchange whose write succeeded and
\* whose response frame the transport goes on delivering eventually settles,
\* and settles once: a settled exchange never changes its outcome.  It is
\* pending only while bytes of its frame are still to be emitted and its
\* buffer holds no complete line.
C20_DeliveredFrameSettlesOnce ==
    /\ \A e \in Slots :
         (ex[e].pc = "listening" /\ ex[e].frame # <<>>) ~> Settled(e)
    /\ [](\A e \in Slots :
            ex[e].pc = "listening"
              => /\ IndexOf(ex[e].buffer, CRLF) = 0
                 /\ ex[e].frame # <<>> => stream # <<>>)
    /\ [][\A e \in Slots :
            (Settled(e) /\ ex'[e].seq = ex[e].seq)
              => (ex'[e].pc = ex[e].pc /\ ex'[e].result = ex[e].result)]_vars

\* A two-phase exchange was suspended in its payload phase, every byte of its
\* frame has been emitted since, and it has settled.
C20_Witness ==
    \E e \in Slots :
        /\ FirstExchange(e)
        /\ ex[e].cmd \in TwoPhaseCommands
        /\ ex[e].frame \in SuccessFrames(ex[e].cmd)
        /\ stream = <<>>
        /\ Settled(e)
        /\ ex[e].result.kind = "unexpected-response"

====
